---- MODULE Spec2Model ----
(***************************************************************************)
(* Model of src/components/PasswordValidator.tsx: the five password rules, *)
(* the strength level, the password generator and the widget that holds    *)
(* the text value, renders the checklist, and copies to the clipboard.     *)
(*                                                                         *)
(* A JavaScript string is a sequence of one-character strings; the empty   *)
(* string is << >>.                                                        *)
(***************************************************************************)
EXTENDS Integers, Sequences, FiniteSets

VARIABLES
    password,    \* useState("") line 51: the text value of the input
    copied,      \* useState(false) line 53
    inflight,    \* clipboard writeText promises awaited at line 106
    timers,      \* pending setTimeout callbacks of line 112
    toasts,      \* titles of the toasts shown through toast() line 108
    view,        \* what the last render (lines 116-225) put on screen
    lastEvent,   \* the handler or callback that ran last
    input,       \* argument of a stand-alone evaluation of the rules
    evaluation,  \* result of that evaluation
    generated    \* record of a stand-alone generatePassword() call

vars == <<password, copied, inflight, timers, toasts, view, lastEvent,
          input, evaluation, generated>>

uiVars == <<password, copied, inflight, timers, toasts, view, lastEvent>>

(***************************************************************************)
(* Bounds of the model.                                                    *)
(***************************************************************************)
\* Math.random() is k / RandDen for an integer 0 <= k < RandDen.
RandDen == 1000000
\* The comparator of the shuffle reads a cycle of this many outcomes of
\* Math.random().
CmpCycle == 6
\* Clipboard writes in flight plus reset timers pending, at most.
MaxPending == 3
\* Evaluated inputs: every string of at most MaxCore sample characters,
\* followed by at most MaxPad repetitions of one sample character.
MaxCore == 4
MaxPad == 8

(***************************************************************************)
(* Helpers on sequences.                                                   *)
(***************************************************************************)
Range(s) == {s[i] : i \in DOMAIN s}

\* The value of an out-of-range element access in JavaScript.
Undefined == "undefined"

\* s[i] with JavaScript's 0-based index: undefined outside the string.
CharAt(s, i) == IF i >= 0 /\ i < Len(s) THEN s[i + 1] ELSE Undefined

IsDefined(c) == c # Undefined

\* Array.prototype.join(""): undefined elements contribute the empty string.
Join(arr) == SelectSeq(arr, IsDefined)

(***************************************************************************)
(* passwordChecks, lines 17-23.                                            *)
(***************************************************************************)
\* pwd.length >= 8
MinLength == 8

\* The character classes of the regular expressions of lines 19-22.
RegexUpper == {"A","B","C","D","E","F","G","H","I","J","K","L","M",
               "N","O","P","Q","R","S","T","U","V","W","X","Y","Z"}
RegexLower == {"a","b","c","d","e","f","g","h","i","j","k","l","m",
               "n","o","p","q","r","s","t","u","v","w","x","y","z"}
RegexDigit == {"0","1","2","3","4","5","6","7","8","9"}
RegexSymbol == {"!","@","#","$","%","^","&","*","(",")",",",".","?","\"",
                ":","{","}","|","<",">"}

\* Mutant: the pattern must match every character instead of some.
RegexTestEvery(class, pwd) == \A i \in DOMAIN pwd : pwd[i] \in class

\* RegExp.prototype.test with a one-class pattern: some character matches.
RegexTest(class, pwd) == \E i \in DOMAIN pwd : pwd[i] \in class

\* Mutant: > in place of >=.
TestLengthStrict(pwd) == Len(pwd) > MinLength

TestLength(pwd) == Len(pwd) >= MinLength
TestUpper(pwd) == RegexTest(RegexUpper, pwd)
TestLower(pwd) == RegexTest(RegexLower, pwd)
TestNumber(pwd) == RegexTest(RegexDigit, pwd)
TestSpecial(pwd) == RegexTest(RegexSymbol, pwd)

passwordChecksLabels ==
    << "At least 8 characters", "Contains uppercase letter",
       "Contains lowercase letter", "Contains number",
       "Contains special character" >>

NumChecks == Len(passwordChecksLabels)

\* passwordChecks[i - 1].test(pwd)
passwordChecksTest(i, pwd) ==
    CASE i = 1 -> TestLength(pwd)
      [] i = 2 -> TestUpper(pwd)
      [] i = 3 -> TestLower(pwd)
      [] i = 4 -> TestNumber(pwd)
      [] i = 5 -> TestSpecial(pwd)

\* passwordChecks.filter(check => check.test(pwd)), as the indices kept.
PassedChecks(pwd) ==
    LET Passes(i) == passwordChecksTest(i, pwd)
    IN  SelectSeq([i \in 1..NumChecks |-> i], Passes)

(***************************************************************************)
(* getPasswordStrength, lines 56-62, and getStrengthConfig, lines 64-94.   *)
(***************************************************************************)
\* Mutant: < in place of <= in both thresholds.
StrengthOfCountStrict(n) ==
    IF n < 2 THEN "unsafe"
    ELSE IF n < 4 THEN "safe"
    ELSE "strong"

StrengthOfCount(n) ==
    IF n <= 2 THEN "unsafe"
    ELSE IF n <= 4 THEN "safe"
    ELSE "strong"

getPasswordStrength(pwd) == StrengthOfCount(Len(PassedChecks(pwd)))

getStrengthConfig(strength) ==
    CASE strength = "strong" ->
           [color |-> "success", label |-> "Strong Password", progress |-> 100]
      [] strength = "safe" ->
           [color |-> "warning", label |-> "Safe Password", progress |-> 60]
      [] strength = "unsafe" ->
           [color |-> "danger", label |-> "Unsafe Password", progress |-> 30]

(***************************************************************************)
(* generatePassword, lines 25-48.                                          *)
(***************************************************************************)
lowercase == <<"a","b","c","d","e","f","g","h","i","j","k","l","m",
               "n","o","p","q","r","s","t","u","v","w","x","y","z">>
uppercase == <<"A","B","C","D","E","F","G","H","I","J","K","L","M",
               "N","O","P","Q","R","S","T","U","V","W","X","Y","Z">>
numbers == <<"0","1","2","3","4","5","6","7","8","9">>
symbols == <<"!","@","#","$","%","^","&","*","(",")",",",".","?","\"",
             ":","{","}","|","<",">">>

allChars == lowercase \o uppercase \o numbers \o symbols

\* One entry of mandatoryChars per class (lines 33-36).
NumMandatory == 4
\* Array.from({ length: 8 }, ...), line 39.
NumRandomChars == 8

\* Mutant: Math.ceil in place of Math.floor.
RandomIndexCeil(r, n) == (r * n + RandDen - 1) \div RandDen

\* Math.floor(Math.random() * n), where Math.random() returned r / RandDen.
RandomIndex(r, n) == (r * n) \div RandDen

\* The outcomes of Math.random() that are explored: both ends of [0, 1).
RandomSamples == {0, RandDen - 1}

\* A tape holds the outcomes of the 12 calls of Math.random() of lines
\* 33-40, in call order.
TapeLength == NumMandatory + NumRandomChars
RandomTapes == [1..TapeLength -> RandomSamples]

\* The tapes drawn by the widget: one outcome for the four mandatory draws
\* and one for the eight extra draws.
UiTapes ==
    {[i \in 1..TapeLength |-> IF i <= NumMandatory THEN r1 ELSE r2] :
        r1 \in RandomSamples, r2 \in RandomSamples}

\* Mutant: the fourth mandatory character drawn from allChars.
mandatoryCharsNoSymbol(tape) ==
    << CharAt(lowercase, RandomIndex(tape[1], Len(lowercase))),
       CharAt(uppercase, RandomIndex(tape[2], Len(uppercase))),
       CharAt(numbers, RandomIndex(tape[3], Len(numbers))),
       CharAt(allChars, RandomIndex(tape[4], Len(allChars))) >>

mandatoryChars(tape) ==
    << CharAt(lowercase, RandomIndex(tape[1], Len(lowercase))),
       CharAt(uppercase, RandomIndex(tape[2], Len(uppercase))),
       CharAt(numbers, RandomIndex(tape[3], Len(numbers))),
       CharAt(symbols, RandomIndex(tape[4], Len(symbols))) >>

randomChars(tape) ==
    [i \in 1..NumRandomChars |->
        CharAt(allChars, RandomIndex(tape[NumMandatory + i], Len(allChars)))]

\* [...mandatoryChars, ...randomChars], line 43.
Unsorted(tape) == mandatoryChars(tape) \o randomChars(tape)

\* The outcomes of Math.random() read by the calls of the comparator of
\* line 44, in call order; a tape shorter than the calls made is read
\* again from its start.
CmpTapes == [1..CmpCycle -> RandomSamples]

\* The value the j-th call of () => Math.random() - 0.5 returns, times
\* 2 * RandDen. The comparator does not look at the elements compared.
Compare(cmp, j) == 2 * cmp[((j - 1) % Len(cmp)) + 1] - RandDen

\* Array.prototype.sort as the engine runs it on fewer than 64 elements:
\* the leading run is found and, when descending, reversed; the other
\* elements are placed by binary insertion.

\* Last position (1-based) of the run that starts at position 1; the
\* element at position idx is compared by call idx - 1.
RECURSIVE RunEnd(_, _, _, _)
RunEnd(n, cmp, isDescending, idx) ==
    IF idx > n THEN n
    ELSE IF (Compare(cmp, idx - 1) < 0) = isDescending
         THEN RunEnd(n, cmp, isDescending, idx + 1)
         ELSE idx - 1

ReverseRange(arr, len) ==
    [i \in DOMAIN arr |-> IF i <= len THEN arr[len + 1 - i] ELSE arr[i]]

\* The array after the leading run is made ascending, the length of the
\* run and the number of comparator calls made.
CountAndMakeRun(arr, cmp) ==
    LET n == Len(arr)
        isDescending == Compare(cmp, 1) < 0
        runLength == RunEnd(n, cmp, isDescending, 3)
    IN  [ arr |-> IF isDescending THEN ReverseRange(arr, runLength) ELSE arr,
          runLength |-> runLength,
          calls |-> IF runLength = n THEN n - 1 ELSE runLength ]

\* The 0-based position at which the pivot is inserted into [left, right),
\* and the number of comparator calls made so far.
RECURSIVE BinarySearch(_, _, _, _)
BinarySearch(cmp, left, right, calls) ==
    IF left < right
    THEN LET mid == left + ((right - left) \div 2)
         IN  IF Compare(cmp, calls + 1) < 0
             THEN BinarySearch(cmp, left, mid, calls + 1)
             ELSE BinarySearch(cmp, mid + 1, right, calls + 1)
    ELSE [left |-> left, calls |-> calls]

\* Mutant: the pivot is written at its place without moving the elements
\* between its place and its old position up by one.
InsertNoShift(arr, left, start) ==
    SubSeq(arr, 1, left) \o <<arr[start + 1]>> \o SubSeq(arr, left + 2, Len(arr))

\* The element at 0-based position start moved to 0-based position left,
\* the elements in between moved up by one.
Insert(arr, left, start) ==
    SubSeq(arr, 1, left) \o <<arr[start + 1]>> \o SubSeq(arr, left + 1, start)
        \o SubSeq(arr, start + 2, Len(arr))

RECURSIVE BinaryInsertionSort(_, _, _, _)
BinaryInsertionSort(arr, cmp, start, calls) ==
    IF start >= Len(arr) THEN arr
    ELSE LET found == BinarySearch(cmp, 0, start, calls)
         IN  BinaryInsertionSort(Insert(arr, found.left, start), cmp,
                                 start + 1, found.calls)

TimSort(arr, cmp) ==
    IF Len(arr) < 2 THEN arr
    ELSE LET run == CountAndMakeRun(arr, cmp)
         IN  BinaryInsertionSort(run.arr, cmp, run.runLength, run.calls)

\* Array.prototype.sort with the comparator tape cmp: undefined elements
\* go last and are not compared.
Sort(arr, cmp) ==
    LET IsUndefined(c) == c = Undefined
    IN  TimSort(SelectSeq(arr, IsDefined), cmp) \o SelectSeq(arr, IsUndefined)

\* The value returned by generatePassword() when the Math.random() calls
\* of lines 33-40 follow tape and those of the comparator follow cmp.
generatePassword(tape, cmp) == Join(Sort(Unsorted(tape), cmp))

(***************************************************************************)
(* The render of PasswordValidator, lines 96-98 and 116-225: what is on    *)
(* screen for the state (password, copied).                                *)
(***************************************************************************)
\* Mutant: the Generate button is shown unless the strength is strong.
RenderGenerateUnlessStrong(pwd, cp) ==
    LET strength == getPasswordStrength(pwd)
        config == getStrengthConfig(strength)
        passedChecks == PassedChecks(pwd)
        truthy == pwd # << >>
    IN  [ value |-> pwd,
          borderColor |-> config.color,
          copyIcon |-> truthy,
          panel |-> truthy,
          label |-> IF truthy THEN config.label ELSE "",
          count |-> IF truthy THEN Len(passedChecks) ELSE 0,
          progress |-> IF truthy THEN config.progress ELSE 0,
          indicators |->
              IF truthy
              THEN [i \in 1..NumChecks |-> passwordChecksTest(i, pwd)]
              ELSE << >>,
          generateButton |-> truthy /\ strength # "strong",
          copyButton |-> truthy /\ truthy /\ strength # "unsafe",
          copyLabel |->
              IF truthy /\ strength # "unsafe"
              THEN (IF cp THEN "Copied!" ELSE "Copy Password")
              ELSE "" ]

Render(pwd, cp) ==
    LET strength == getPasswordStrength(pwd)
        config == getStrengthConfig(strength)
        passedChecks == PassedChecks(pwd)
        truthy == pwd # << >>
    IN  [ value |-> pwd,                                        \* line 130
          borderColor |-> config.color,                         \* line 133
          copyIcon |-> truthy,                                  \* line 136
          panel |-> truthy,                                     \* line 160
          label |-> IF truthy THEN config.label ELSE "",        \* line 165
          count |-> IF truthy THEN Len(passedChecks) ELSE 0,    \* line 168
          progress |-> IF truthy THEN config.progress ELSE 0,   \* line 172
          indicators |->                                        \* line 181
              IF truthy
              THEN [i \in 1..NumChecks |-> passwordChecksTest(i, pwd)]
              ELSE << >>,
          generateButton |-> truthy /\ strength = "unsafe",     \* line 201
          copyButton |-> truthy /\ truthy /\ strength # "unsafe", \* line 210
          copyLabel |->                                         \* line 217
              IF truthy /\ strength # "unsafe"
              THEN (IF cp THEN "Copied!" ELSE "Copy Password")
              ELSE "" ]

\* The values typed or pasted into the input.
TypedValues ==
    { << >>,
      <<"a">>,
      <<"_">>,
      <<"P","1","!">>,
      <<"p","a","s","s","w","o","r","d">>,
      <<"P","a","s","s","w","o","r","d","1">>,
      <<"P","a","s","s","w","o","r","d","1","!">> }

SuccessTitle == "Password copied!"

(***************************************************************************)
(* The widget: initial state and handlers.                                 *)
(***************************************************************************)
NotEvaluated == [done |-> FALSE, results |-> << >>, strength |-> ""]

NotGenerated ==
    [called |-> FALSE, tape |-> << >>, cmp |-> << >>, mandatoryChars |-> << >>,
     randomChars |-> << >>, password |-> << >>]

UiInit ==
    /\ password = << >>
    /\ copied = FALSE
    /\ inflight = 0
    /\ timers = 0
    /\ toasts = {}
    /\ view = Render(<< >>, FALSE)
    /\ lastEvent = "init"

Init ==
    /\ UiInit
    /\ input = << >>
    /\ evaluation = NotEvaluated
    /\ generated = NotGenerated

\* Mutant: the render after the change still uses the previous value.
onChangeStaleRender(v) ==
    /\ v # password
    /\ password' = v
    /\ view' = Render(password, copied)
    /\ lastEvent' = "onChange"
    /\ UNCHANGED <<copied, inflight, timers, toasts, input, evaluation, generated>>

\* onChange={(e) => setPassword(e.target.value)}, line 131.
onChange(v) ==
    /\ v # password
    /\ password' = v
    /\ view' = Render(v, copied)
    /\ lastEvent' = "onChange"
    /\ UNCHANGED <<copied, inflight, timers, toasts, input, evaluation, generated>>

\* handleGeneratePassword, lines 100-102, called by the button of line 203.
handleGeneratePassword ==
    /\ view.generateButton
    /\ \E tape \in UiTapes :
         \E cmp \in CmpTapes :
            /\ password' = generatePassword(tape, cmp)
            /\ view' = Render(password', copied)
    /\ lastEvent' = "generate"
    /\ UNCHANGED <<copied, inflight, timers, toasts, input, evaluation, generated>>

\* handleCopyPassword up to its await, lines 104-106. The buttons that call
\* it (lines 142, 212) exist only for a non-empty value; the handler tests
\* the value itself (line 105), and is modelled as callable in any state.
handleCopyPassword ==
    /\ IF password # << >>
       THEN /\ inflight + timers < MaxPending
            /\ inflight' = inflight + 1
       ELSE inflight' = inflight
    /\ lastEvent' = "copy"
    /\ UNCHANGED <<password, copied, timers, toasts, view, input, evaluation, generated>>

\* The rest of handleCopyPassword once writeText has resolved, lines 107-112.
writeResolved ==
    /\ inflight > 0
    /\ inflight' = inflight - 1
    /\ copied' = TRUE
    /\ toasts' = toasts \cup {SuccessTitle}
    /\ timers' = timers + 1
    /\ view' = Render(password, TRUE)
    /\ lastEvent' = "writeResolved"
    /\ UNCHANGED <<password, input, evaluation, generated>>

\* writeText rejected: the await of line 106 throws, nothing catches it, and
\* the promise of handleCopyPassword rejects with lines 107-112 not run.
writeRejected ==
    /\ inflight > 0
    /\ inflight' = inflight - 1
    /\ lastEvent' = "writeRejected"
    /\ UNCHANGED <<password, copied, timers, toasts, view, input, evaluation, generated>>

\* Mutant: the timer callback does not reset copied.
timerFiredNoReset ==
    /\ timers > 0
    /\ timers' = timers - 1
    /\ lastEvent' = "timer"
    /\ UNCHANGED <<password, copied, view, inflight, toasts, input, evaluation, generated>>

\* The callback of setTimeout(() => setCopied(false), 2000), line 112.
timerFired ==
    /\ timers > 0
    /\ timers' = timers - 1
    /\ copied' = FALSE
    /\ view' = Render(password, FALSE)
    /\ lastEvent' = "timer"
    /\ UNCHANGED <<password, inflight, toasts, input, evaluation, generated>>

Next ==
    \/ \E v \in TypedValues : onChange(v)
    \/ handleGeneratePassword
    \/ handleCopyPassword
    \/ writeResolved
    \/ writeRejected
    \/ timerFired

Spec == Init /\ [][Next]_vars

(***************************************************************************)
(* The rule evaluation on its own: the five results and the strength of    *)
(* one input string (lines 96-98 and 181).                                 *)
(***************************************************************************)
SampleChars == {"a", "Z", "5", "!", "_"}

\* n repetitions of the character c.
Pad(c, n) == [i \in 1..n |-> c]

ExampleInputs ==
    { << >>,
      <<"p","a","s","s","w","o","r","d">>,
      <<"P","a","s","s","w","o","r","d","1">>,
      <<"P","a","s","s","w","o","r","d","1","!">> }

Inputs ==
    ExampleInputs \cup
    { core \o Pad(c, n) :
        core \in UNION {[1..k -> SampleChars] : k \in 0..MaxCore},
        c \in SampleChars, n \in 0..MaxPad }

Evaluate ==
    /\ ~evaluation.done
    /\ evaluation' =
         [ done |-> TRUE,
           results |-> [i \in 1..NumChecks |-> passwordChecksTest(i, input)],
           strength |-> getPasswordStrength(input) ]
    /\ UNCHANGED <<uiVars, input, generated>>

InitEval ==
    /\ UiInit
    /\ input \in Inputs
    /\ evaluation = NotEvaluated
    /\ generated = NotGenerated

NextEval == Evaluate

SpecEval == InitEval /\ [][NextEval]_vars

(***************************************************************************)
(* generatePassword() on its own, over every tape of draws and every cycle *)
(* of comparator outcomes.                                                 *)
(***************************************************************************)
\* The outcomes of the 12 index draws are fixed first; the call then runs
\* with every cycle of comparator outcomes.
InitGen ==
    /\ UiInit
    /\ input = << >>
    /\ evaluation = NotEvaluated
    /\ \E tape \in RandomTapes :
          generated = [NotGenerated EXCEPT !.tape = tape]

CallGenerate ==
    /\ ~generated.called
    /\ \E cmp \in CmpTapes :
          generated' =
            [ called |-> TRUE,
              tape |-> generated.tape,
              cmp |-> cmp,
              mandatoryChars |-> mandatoryChars(generated.tape),
              randomChars |-> randomChars(generated.tape),
              password |-> generatePassword(generated.tape, cmp) ]
    /\ UNCHANGED <<uiVars, input, evaluation>>

NextGen == CallGenerate

SpecGen == InitGen /\ [][NextGen]_vars

(***************************************************************************)
(* Properties.                                                             *)
(***************************************************************************)
\* The character classes as the specification names them.
SpecUpper == {"A","B","C","D","E","F","G","H","I","J","K","L","M","N","O",
              "P","Q","R","S","T","U","V","W","X","Y","Z"}
SpecLower == {"a","b","c","d","e","f","g","h","i","j","k","l","m","n","o",
              "p","q","r","s","t","u","v","w","x","y","z"}
SpecDigit == {"0","1","2","3","4","5","6","7","8","9"}
SpecSymbol == {"!","@","#","$","%","^","&","*","(",")",",",".","?","\"",":",
               "{","}","|","<",">"}

\* The generator's alphabets as sets.
LowercaseSet == Range(lowercase)
UppercaseSet == Range(uppercase)
NumbersSet == Range(numbers)
SymbolsSet == Range(symbols)
AllCharsSet == Range(allChars)

\* a and b hold the same characters the same number of times.
SameMultiset(a, b) ==
    /\ Len(a) = Len(b)
    /\ \A c \in Range(a) :
          Cardinality({i \in DOMAIN a : a[i] = c}) =
          Cardinality({i \in DOMAIN b : b[i] = c})

HasCharIn(class, s) == {i \in DOMAIN s : s[i] \in class} # {}

\* Number of rules a result vector reports as passed.
CountPassed(results) == Cardinality({i \in DOMAIN results : results[i]})

\* C1: whatever the random choices, the string generatePassword returns
\* passes each of the 5 rules and its strength is "strong".
C1_GeneratedIsStrong ==
    generated.called =>
        /\ \A i \in 1..5 : passwordChecksTest(i, generated.password)
        /\ getPasswordStrength(generated.password) = "strong"

\* C1 witness: a generated password whose only symbol and only digit are
\* the mandatory ones.
C1_Witness ==
    /\ generated.called
    /\ Cardinality({i \in DOMAIN generated.password :
                        generated.password[i] \in SpecSymbol}) = 1
    /\ Cardinality({i \in DOMAIN generated.password :
                        generated.password[i] \in SpecDigit}) = 1
    /\ getPasswordStrength(generated.password) = "strong"

\* C2: generatePassword always returns a string of length exactly 12.
C2_GeneratedLength ==
    generated.called => Len(generated.password) = 12

\* C2 witness: every draw took the top of Math.random()'s range, so every
\* index is the last of its alphabet, and 12 characters came back.
C2_Witness ==
    /\ generated.called
    /\ \A i \in DOMAIN generated.tape : generated.tape[i] = RandDen - 1
    /\ generated.mandatoryChars = <<"z", "Z", "9", ">">>
    /\ Len(generated.password) = 12

\* The level that the thresholds of the claim give to n passed rules.
C3_Levels(n) ==
    /\ n \in 0..5
    /\ (n \in 0..2) = (evaluation.strength = "unsafe")
    /\ (n \in 3..4) = (evaluation.strength = "safe")
    /\ (n = 5) = (evaluation.strength = "strong")

\* C3 as stated: the strength level depends on the number n of passed rules
\* only (0..2 unsafe, 3..4 safe, 5 strong, one level for every n in 0..5),
\* and "password" passes 1 rule, "Password1" 4 and "Password1!" 5.
C3_AsStated ==
    evaluation.done =>
        LET n == CountPassed(evaluation.results)
        IN  /\ C3_Levels(n)
            /\ (input = <<"p","a","s","s","w","o","r","d">>
                    => n = 1 /\ evaluation.strength = "unsafe")
            /\ (input = <<"P","a","s","s","w","o","r","d","1">>
                    => n = 4 /\ evaluation.strength = "safe")
            /\ (input = <<"P","a","s","s","w","o","r","d","1","!">>
                    => n = 5 /\ evaluation.strength = "strong")

\* C3 amended: the strength level depends on the number n of passed rules
\* only (0..2 unsafe, 3..4 safe, 5 strong, one level for every n in 0..5);
\* "password" passes 2 rules (length and lowercase) and is unsafe,
\* "Password1" passes 4 and is safe, "Password1!" passes 5 and is strong.
C3_StrengthFromCount ==
    evaluation.done =>
        LET n == CountPassed(evaluation.results)
        IN  /\ C3_Levels(n)
            /\ (input = <<"p","a","s","s","w","o","r","d">>
                    => /\ evaluation.results = <<TRUE, FALSE, TRUE, FALSE, FALSE>>
                       /\ evaluation.strength = "unsafe")
            /\ (input = <<"P","a","s","s","w","o","r","d","1">>
                    => n = 4 /\ evaluation.strength = "safe")
            /\ (input = <<"P","a","s","s","w","o","r","d","1","!">>
                    => n = 5 /\ evaluation.strength = "strong")

\* C3 witness: "password" was evaluated: 2 rules passed, strength unsafe.
C3_Witness ==
    /\ evaluation.done
    /\ input = <<"p","a","s","s","w","o","r","d">>
    /\ CountPassed(evaluation.results) = 2
    /\ evaluation.strength = "unsafe"

\* C4: each rule passes exactly when its condition is present: length >= 8,
\* a character in A-Z, one in a-z, one in 0-9, one of the symbol set.
C4_RulesMatchConditions ==
    evaluation.done =>
        /\ evaluation.results[1] = (Len(input) >= 8)
        /\ evaluation.results[2] = HasCharIn(SpecUpper, input)
        /\ evaluation.results[3] = HasCharIn(SpecLower, input)
        /\ evaluation.results[4] = HasCharIn(SpecDigit, input)
        /\ evaluation.results[5] = HasCharIn(SpecSymbol, input)

\* C4 witness: a 7-character input with all four classes: only the length
\* rule fails.
C4_Witness ==
    /\ evaluation.done
    /\ Len(input) = 7
    /\ evaluation.results = <<FALSE, TRUE, TRUE, TRUE, TRUE>>

\* C5: evaluation is total: every input can be evaluated and yields five
\* booleans and a level; the empty string fails all five and is unsafe.
C5_EvaluationTotal ==
    /\ ~evaluation.done => ENABLED Evaluate
    /\ evaluation.done =>
        /\ evaluation.results \in [1..5 -> BOOLEAN]
        /\ evaluation.strength \in {"unsafe", "safe", "strong"}
        /\ (input = << >> =>
                /\ CountPassed(evaluation.results) = 0
                /\ evaluation.strength = "unsafe")

\* C5 witness: the empty string was evaluated, 0 of 5 passed, unsafe.
C5_Witness ==
    /\ evaluation.done
    /\ input = << >>
    /\ evaluation.results = <<FALSE, FALSE, FALSE, FALSE, FALSE>>
    /\ evaluation.strength = "unsafe"

\* C6: the returned string is a permutation of the 12 selected characters:
\* one lowercase, one uppercase, one digit, one symbol and 8 characters of
\* the union alphabet; every character of it is in the union alphabet.
C6_GeneratedIsPermutation ==
    generated.called =>
        /\ Len(generated.mandatoryChars) = 4
        /\ generated.mandatoryChars[1] \in LowercaseSet
        /\ generated.mandatoryChars[2] \in UppercaseSet
        /\ generated.mandatoryChars[3] \in NumbersSet
        /\ generated.mandatoryChars[4] \in SymbolsSet
        /\ Len(generated.randomChars) = 8
        /\ \A i \in 1..8 : generated.randomChars[i] \in AllCharsSet
        /\ SameMultiset(generated.password,
                        generated.mandatoryChars \o generated.randomChars)
        /\ \A i \in DOMAIN generated.password :
               generated.password[i] \in AllCharsSet

\* C6 witness: a call whose comparator was negative on every call, which
\* returns the 12 selected characters in reverse order.
C6_Witness ==
    /\ generated.called
    /\ \A j \in DOMAIN generated.cmp : generated.cmp[j] = 0
    /\ generated.password # generated.mandatoryChars \o generated.randomChars
    /\ \A i \in 1..4 : generated.password[13 - i] = generated.mandatoryChars[i]
    /\ \A i \in 1..8 : generated.password[9 - i] = generated.randomChars[i]

\* The five results and the label the rules give to the current value.
CurrentResults == [i \in 1..5 |-> passwordChecksTest(i, password)]
CurrentLabel ==
    LET n == CountPassed(CurrentResults)
    IN  IF n <= 2 THEN "Unsafe Password"
        ELSE IF n <= 4 THEN "Safe Password"
        ELSE "Strong Password"

\* C7 as stated: after every change of the text value, by typing or by
\* Generate, the screen shows the 5 indicators and the strength label of
\* the current value, for every value the field can hold.
C7_AsStated ==
    lastEvent \in {"onChange", "generate"} =>
        /\ view.value = password
        /\ view.panel
        /\ view.indicators = CurrentResults
        /\ view.label = CurrentLabel

\* C7 amended: after every change of the text value the screen shows the
\* current value; when it is non-empty the screen shows the 5 indicators,
\* the passed count and the strength label of the current value, never
\* those of an earlier value; when it is empty no indicator and no strength
\* label is on screen.
C7_RenderFollowsValue ==
    /\ view.value = password
    /\ password # << >> =>
          /\ view.panel
          /\ view.indicators = CurrentResults
          /\ view.count = CountPassed(CurrentResults)
          /\ view.label = CurrentLabel
    /\ password = << >> =>
          /\ ~view.panel
          /\ view.indicators = << >>
          /\ view.label = ""

\* C7 witness: the value was typed, then replaced by Generate, and the
\* screen shows 5 passed indicators and the strong label.
C7_Witness ==
    /\ lastEvent = "generate"
    /\ view.value = password
    /\ view.indicators = <<TRUE, TRUE, TRUE, TRUE, TRUE>>
    /\ view.label = "Strong Password"

\* C8: when the clipboard write fails, the failure is surfaced as a
\* notification: in the state the failure leaves, the user has been
\* notified, the failure did not set copied and showed no success toast.
C8_CopyFailureNotified ==
    [][ lastEvent' = "writeRejected" =>
          /\ \E t \in toasts' : t # SuccessTitle
          /\ copied' = copied
          /\ (SuccessTitle \in toasts') = (SuccessTitle \in toasts) ]_vars

\* C9: Generate is offered exactly when the value is non-empty and unsafe;
\* not initially; not right after a Generate, where Copy Password is
\* offered instead; the two buttons are never offered together.
C9_GenerateOffered ==
    /\ view.generateButton =
          (password # << >> /\ CurrentLabel = "Unsafe Password")
    /\ ~(view.generateButton /\ view.copyButton)
    /\ lastEvent = "init" => ~view.generateButton
    /\ lastEvent = "generate" =>
          /\ ~view.generateButton
          /\ view.copyButton
          /\ CurrentLabel = "Strong Password"

\* C9 witness: the state right after a Generate, with Copy Password offered.
C9_Witness ==
    /\ lastEvent = "generate"
    /\ Len(password) = 12
    /\ view.copyButton
    /\ ~view.generateButton

\* C10: a copy of an empty value writes nothing and leaves copied alone;
\* copied turns true only when a clipboard write, started for a non-empty
\* value, resolves; while copied is true a reset timer is pending; each
\* timer that fires leaves copied false, so with no timer pending and no
\* further copy copied is false.
C10_CopiedFlag ==
    /\ [](copied => timers > 0)
    /\ [][ /\ (lastEvent' = "copy" /\ password = << >>) =>
                UNCHANGED <<inflight, copied, timers, toasts>>
           /\ inflight' > inflight =>
                (password # << >> /\ lastEvent' = "copy")
           /\ (~copied /\ copied') =>
                (lastEvent' = "writeResolved" /\ inflight' = inflight - 1)
           /\ timers' < timers => ~copied' ]_vars

\* C10 witness: two copies resolved, the first timer fired while the second
\* is pending: copied is false although a timer is still pending.
C10_Witness ==
    /\ lastEvent = "timer"
    /\ ~copied
    /\ timers = 1
    /\ SuccessTitle \in toasts

====
